---- MODULE Spec2Model ----
(***************************************************************************)
(* Seat inventory, booking writer and booking wizard (BookingFlowV2) of    *)
(* the concert landing page.                                               *)
(*                                                                         *)
(* The data store (three tables behind the supabase client) is external:   *)
(* it is modelled as the service code's queries describe it.  A request    *)
(* that fails returns an error and changes nothing in the store; a request *)
(* that succeeds is applied as one statement.  Seat rows carry the id      *)
(* `${theater_type}-${row}-${seat_number}` that createBooking addresses.   *)
(***************************************************************************)
EXTENDS Integers, Sequences, FiniteSets, TLC

\* ------------------------------------------------------------------ bounds
\* Largest number a user types into the quantity field.
MaxQuantityInput == 3
\* Total number of createBooking invocations in a run.
MaxPayments == 2
\* loadBookedSeats calls of one wizard that may be pending at once.
MaxPendingLoads == 2

\* ------------------------------------------------------------- constants
\* Math.min(maxAvailable, 10), useState(10) and validate's quantity > 10.
HardCap == 10
\* /^(01)[0-9]{9}$/ : the nine digits after the literal 01.
PhoneDigits == 9
\* formData.name.trim().length < 2
MinNameLen == 2

\* Wizard instances (BookingFlowV2 modals, one per browser session).
Wizards == {1, 2}
Tiers == {"vip", "classic"}
NoTier == "null"
\* Rows in ascending order, as .order('row', {ascending: true}) compares them.
RowOrder == <<"A", "B">>
Rows == {RowOrder[i] : i \in 1..Len(RowOrder)}
RowIndex(r) == CHOOSE i \in 1..Len(RowOrder) : RowOrder[i] = r

\* seat-layout.ts, tier -> row -> seat count, scaled down from 7+8+8 and
\* 15+17+...+10: the vip tier keeps one row of two seats, the classic tier
\* two rows of one seat, so that seat keys of the two tiers partly coincide.
seatLayout ==
  [vip     |-> [A |-> 2, B |-> 0],
   classic |-> [A |-> 1, B |-> 1]]

AllSeats == [row : Rows, seat_number : 1..2]

\* Seats of a tier the picker renders: Array.from({length: count}, i + 1).
LayoutSeats(type) == {s \in AllSeats : s.seat_number <= seatLayout[type][s.row]}

\* Object.values(seatLayout[type]).reduce((a, b) => a + b, 0)
RECURSIVE SumRows(_, _)
SumRows(type, i) ==
  IF i = 0 THEN 0 ELSE seatLayout[type][RowOrder[i]] + SumRows(type, i - 1)
TotalSeats(type) == SumRows(type, Len(RowOrder))

\* `${theater_type}-${row}-${seat_number}`
SeatId(type, seat) == <<type, seat.row, seat.seat_number>>
\* `${row}-${seat_number}`
SeatKey(seat) == <<seat.row, seat.seat_number>>

\* The seeded theater_seats rows: one per seat of either tier.
SeededSeatIds == {SeatId(t, s) : t \in Tiers, s \in AllSeats} \cap
                 UNION {{SeatId(t, s) : s \in LayoutSeats(t)} : t \in Tiers}

Min(a, b) == IF a < b THEN a ELSE b
Max(a, b) == IF a > b THEN a ELSE b

\* ------------------------------------------------------------ form values
\* Strings are sequences of one-character strings.
Whitespace == {" ", "\t", "\n"}
Digits == {"0", "1", "2", "3", "4", "5", "6", "7", "8", "9"}

\* String.prototype.trim
RECURSIVE TrimLeft(_)
TrimLeft(s) ==
  IF s # <<>> /\ Head(s) \in Whitespace THEN TrimLeft(Tail(s)) ELSE s
RECURSIVE TrimRight(_)
TrimRight(s) ==
  IF s # <<>> /\ s[Len(s)] \in Whitespace
  THEN TrimRight(SubSeq(s, 1, Len(s) - 1)) ELSE s
Trim(s) == TrimRight(TrimLeft(s))

\* phone.trim() in place of phone.replace(/\s/g, '').
TrimOnly(s) == Trim(s)

\* phone.replace(/\s/g, '')
IsInk(ch) == ch \notin Whitespace
StripWhitespace(s) == SelectSeq(s, IsInk)

\* /^(01)[0-9]{9}$/.test(...)
PhonePattern(q) ==
  /\ Len(q) = 2 + PhoneDigits
  /\ q[1] = "0"
  /\ q[2] = "1"
  /\ \A i \in 3..Len(q) : q[i] \in Digits

\* /^[^\s@]+@[^\s@]+\.[^\s@]+$/.test(...)
EmailPattern(e) ==
  \E i \in 2..Len(e) : \E j \in (i + 2)..(Len(e) - 1) :
     /\ e[i] = "@"
     /\ e[j] = "."
     /\ \A k \in 1..Len(e) : k # i => (e[k] # "@" /\ e[k] \notin Whitespace)

\* validate(formData): the set of keys of the errors object.
validate(fd) ==
  (IF Len(Trim(fd.name)) < MinNameLen THEN {"name"} ELSE {}) \cup
  (IF ~PhonePattern(StripWhitespace(fd.phone)) THEN {"phone"} ELSE {}) \cup
  (IF fd.email # <<>> /\ ~EmailPattern(fd.email) THEN {"email"} ELSE {}) \cup
  (IF fd.quantity < 1 \/ fd.quantity > HardCap THEN {"quantity"} ELSE {})

\* What the user types.
NameAli == <<"A", "l", "i">>
NamePadded == <<" ", "A", " ">>
PhoneGood == <<"0", "1", "0", "1", "2", "3", "4", "5", "6", "7", "8">>
PhoneSpaced == <<"0", "1", "0", " ", "1", "2", "3", "4", " ", "5", "6", "7", "8">>
PhoneShort == <<"0", "1", "0", "1", "2", "3", "4", "5", "6", "7">>
PhoneIntl == <<"+", "2", "0", "1", "0", "1", "2", "3", "4", "5", "6", "7", "8">>
EmailGood == <<"a", "@", "b", ".", "c">>
EmailNoDot == <<"a", "@", "b">>
Names == {<<>>, NamePadded, NameAli}
Phones == {PhoneGood, PhoneSpaced, PhoneShort, PhoneIntl}
Emails == {<<>>, EmailGood, EmailNoDot}
PaymentMethods == {"vodafone", "instapay", "card"}

\* ------------------------------------------------------------------ state
VARIABLES
  theater_seats,  \* store: seat id -> is_available
  bookings,       \* store: the bookings rows, in insertion order; id = index
  booking_seats,  \* store: the booking_seats (seat-claim) rows
  calls,          \* createBooking invocations (and the handlePayment around them)
  lastRead,       \* outcome of the latest direct call of a reader function
  mounted,        \* wizard -> whether the modal is still open
  step, ticketType, formData, selectedSeats, paymentMethod, errors,
  isLoading, bookedSeats, maxQuantity,   \* wizard -> its React state
  selected,       \* wizard -> the SeatPicker's own useState
  loads,          \* wizard -> tier -> pending loadBookedSeats calls
  toast,          \* wizard -> the latest toast it raised
  downloads,      \* wizard -> the files its ticket downloads produced
  bookingFlow     \* the React state of the receipt-upload wizard BookingFlow

store == <<theater_seats, bookings, booking_seats>>
wizard == <<mounted, step, ticketType, formData, selectedSeats, paymentMethod,
            errors, isLoading, bookedSeats, maxQuantity, selected, loads>>
vars == <<store, calls, lastRead, wizard, toast, downloads, bookingFlow>>

\* ------------------------------------------------------------ the readers
SeatLess(a, b) ==
  \/ RowIndex(a.row) < RowIndex(b.row)
  \/ a.row = b.row /\ a.seat_number < b.seat_number

\* .order('row').order('seat_number') over a set of seats
RECURSIVE OrderSeats(_)
OrderSeats(S) ==
  IF S = {} THEN <<>>
  ELSE LET m == CHOOSE x \in S : \A y \in S \ {x} : SeatLess(x, y)
       IN <<m>> \o OrderSeats(S \ {m})

\* The query without its .eq('is_available', flag) filter.
SeatsWhereAnyFlag(theaterType, flag) ==
  {s \in AllSeats : SeatId(theaterType, s) \in DOMAIN theater_seats}

\* from('theater_seats') ... .eq('theater_type', t).eq('is_available', flag)
SeatsWhere(theaterType, flag) ==
  {s \in AllSeats : /\ SeatId(theaterType, s) \in DOMAIN theater_seats
                    /\ theater_seats[SeatId(theaterType, s)] = flag}
\* from('theater_seats') ... .eq('theater_type', t)
SeatsOf(theaterType) ==
  {s \in AllSeats : SeatId(theaterType, s) \in DOMAIN theater_seats}

SeatRow(theaterType, s) ==
  [id |-> SeatId(theaterType, s), theater_type |-> theaterType, row |-> s.row,
   seat_number |-> s.seat_number,
   is_available |-> theater_seats[SeatId(theaterType, s)]]

\* getAvailableSeats: ok is whether the store answers the query.  The catch
\* block turns a failure into [], so nothing is thrown either way.
getAvailableSeats(theaterType, ok) ==
  IF ok
  THEN [threw |-> FALSE,
        data |-> LET q == OrderSeats(SeatsWhere(theaterType, TRUE))
                 IN [i \in 1..Len(q) |-> SeatRow(theaterType, q[i])]]
  ELSE [threw |-> FALSE, data |-> <<>>]

\* getBookedSeats with a catch block that rethrows, as createBooking's does.
getBookedSeatsRethrows(theaterType, ok) ==
  IF ok
  THEN [threw |-> FALSE, data |-> OrderSeats(SeatsWhere(theaterType, FALSE))]
  ELSE [threw |-> TRUE, data |-> <<>>]

\* getBookedSeats: the rows with is_available = false, as {row, seat_number}.
getBookedSeats(theaterType, ok) ==
  IF ok
  THEN [threw |-> FALSE, data |-> OrderSeats(SeatsWhere(theaterType, FALSE))]
  ELSE [threw |-> FALSE, data |-> <<>>]

\* A loop that records a row when it first sees it and never raises the
\* recorded number afterwards.
RECURSIVE LayoutLoopFirstSeen(_, _)
LayoutLoopFirstSeen(data, layout) ==
  IF data = <<>> THEN layout
  ELSE LET seat == Head(data)
           known == \E i \in 1..Len(layout) : layout[i].row = seat.row
       IN LayoutLoopFirstSeen(Tail(data),
            IF known THEN layout
            ELSE Append(layout, [row |-> seat.row, seats |-> seat.seat_number]))

\* layout[seat.row] = Math.max(layout[seat.row] || 0, seat.seat_number).
\* The layout object is kept as its entries [row, seats] in insertion order.
RECURSIVE LayoutLoop(_, _)
LayoutLoop(data, layout) ==
  IF data = <<>> THEN layout
  ELSE LET seat == Head(data)
           known == \E i \in 1..Len(layout) : layout[i].row = seat.row
       IN IF known
          THEN LET i == CHOOSE j \in 1..Len(layout) : layout[j].row = seat.row
               IN LayoutLoop(Tail(data),
                    [layout EXCEPT ![i].seats = Max(@, seat.seat_number)])
          ELSE LayoutLoop(Tail(data),
                 Append(layout, [row |-> seat.row,
                                 seats |-> Max(0, seat.seat_number)]))

\* getSeatLayout: row -> largest seat number seen; {} on a failed read.
getSeatLayout(theaterType, ok) ==
  IF ok
  THEN [threw |-> FALSE, data |-> LayoutLoop(OrderSeats(SeatsOf(theaterType)), <<>>)]
  ELSE [threw |-> FALSE, data |-> <<>>]

\* The seed of theater_seats at full size: the rows of each tier in order,
\* with the number of seats inserted for each row, numbered from 1.
SeedRowNames == <<"A", "B", "C", "D", "E", "F", "G", "H", "I", "J", "K", "L">>
SeedRowCounts ==
  [vip     |-> <<7, 8, 8>>,
   classic |-> <<15, 17, 22, 23, 23, 22, 24, 30, 28, 30, 10, 10>>]

\* The rows the seed inserts for one row letter: generate_series(1, n).
SeedRow(row, n) == [i \in 1..n |-> [row |-> row, seat_number |-> i]]

\* getSeatLayout's loop over what its query returns on the seeded store for
\* a tier: the seats come ordered by row, then by seat number, so the loop
\* runs over the seats of row r with the layout the rows before it left.
RECURSIVE SeedLayoutUpTo(_, _)
SeedLayoutUpTo(theaterType, r) ==
  IF r = 0 THEN <<>>
  ELSE LayoutLoop(SeedRow(SeedRowNames[r], SeedRowCounts[theaterType][r]),
                  SeedLayoutUpTo(theaterType, r - 1))

\* getSeatLayout on the seeded store at full size.
SeedLayout ==
  [t \in Tiers |-> SeedLayoutUpTo(t, Len(SeedRowCounts[t]))]

\* The number of theater_seats rows the seed inserts for a tier.
RECURSIVE SeedCountFrom(_, _)
SeedCountFrom(theaterType, r) ==
  IF r > Len(SeedRowCounts[theaterType]) THEN 0
  ELSE Len(SeedRow(SeedRowNames[r], SeedRowCounts[theaterType][r]))
         + SeedCountFrom(theaterType, r + 1)

\* -------------------------------------------------------------------- Init
NoRead == [fn |-> "none", theater_type |-> NoTier, ok |-> TRUE,
           threw |-> FALSE, data |-> <<>>]
InitForm == [name |-> <<>>, phone |-> <<>>, email |-> <<>>, quantity |-> 1]

\* BookingFlow's useState initial values; receipt is <<>> for null.
InitBookingFlow ==
  [open |-> TRUE, step |-> 1, formData |-> InitForm, errors |-> {},
   paymentMethod |-> "vodafone", receipt |-> <<>>, toast |-> "none"]

Init ==
  /\ theater_seats = [id \in SeededSeatIds |-> TRUE]
  /\ bookings = <<>>
  /\ booking_seats = <<>>
  /\ calls = <<>>
  /\ lastRead = NoRead
  /\ mounted = [w \in Wizards |-> TRUE]
  /\ step = [w \in Wizards |-> 1]
  /\ ticketType = [w \in Wizards |-> NoTier]
  /\ formData = [w \in Wizards |-> InitForm]
  /\ selectedSeats = [w \in Wizards |-> <<>>]
  /\ paymentMethod = [w \in Wizards |-> "vodafone"]
  /\ errors = [w \in Wizards |-> {}]
  /\ isLoading = [w \in Wizards |-> FALSE]
  /\ bookedSeats = [w \in Wizards |-> {}]
  /\ maxQuantity = [w \in Wizards |-> HardCap]
  /\ selected = [w \in Wizards |-> <<>>]
  /\ loads = [w \in Wizards |-> [t \in Tiers |-> 0]]
  /\ toast = [w \in Wizards |-> "none"]
  /\ downloads = [w \in Wizards |-> <<>>]
  /\ bookingFlow = InitBookingFlow

\* ------------------------------------------------------ wizard plumbing
\* useState(genBookingId): generated once per instance, on the client.
bookingId(w) == <<"RT", w>>

\* step === 3 && ticketType && !isLoading: the SeatPicker is rendered.
PickerShown(st, type, loading) == st = 3 /\ type # NoTier /\ ~loading

\* The SeatPicker keeps its useState only while it stays rendered; a newly
\* rendered picker starts from useState([]).
PickerState(w, sel) ==
  selected' = [selected EXCEPT ![w] =
    IF /\ PickerShown(step'[w], ticketType'[w], isLoading'[w])
       /\ PickerShown(step[w], ticketType[w], isLoading[w])
    THEN sel ELSE <<>>]

\* A state setter of a wizard that was closed meanwhile does nothing.
SetState(f, w, v) == IF mounted[w] THEN [f EXCEPT ![w] = v] ELSE f

PendingLoads(w) == loads[w]["vip"] + loads[w]["classic"]

\* ------------------------------------------------------------ createBooking
SeatSet(seats) == {seats[i] : i \in 1..Len(seats)}

\* Whether an earlier createBooking for the same tier and the same seats has
\* returned, and those seats are marked unavailable.
AlreadyBooked(type, seats) ==
  /\ \E k \in DOMAIN calls :
       /\ calls[k].result = "returned"
       /\ calls[k].theater_type = type
       /\ SeatSet(calls[k].seats) = SeatSet(seats)
  /\ \A s \in SeatSet(seats) : ~theater_seats[SeatId(type, s)]

\* The frame of one createBooking invocation: its arguments (bookingData),
\* the point it has reached, and, for a call made by handlePayment (w is a
\* wizard), the rest of handlePayment around it.  quantity and maxQuantity
\* are the caller's formData.quantity and maxQuantity when it invoked;
\* repeat records what the store held for these seats at that moment.
NewCall(w, name, phone, email, type, seats, method, quantity, maxQ) ==
  [w |-> w, pc |-> "insertBooking", result |-> "pending", failedAt |-> 0,
   repeat |-> AlreadyBooked(type, seats),
   name |-> name, phone |-> phone, email |-> email, theater_type |-> type,
   seats |-> seats, payment_method |-> method, quantity |-> quantity,
   maxQuantity |-> maxQ, booking |-> 0, idx |-> 0]

\* .from('bookings').insert({...}).select().single()
\* A booking row written as awaiting confirmation.
BookingRowPending(c) ==
  [id |-> Len(bookings) + 1, name |-> c.name, phone |-> c.phone,
   email |-> c.email, theater_type |-> c.theater_type,
   payment_method |-> c.payment_method, status |-> "pending",
   total_seats |-> Len(c.seats)]

BookingRow(c) ==
  [id |-> Len(bookings) + 1, name |-> c.name, phone |-> c.phone,
   email |-> c.email, theater_type |-> c.theater_type,
   payment_method |-> c.payment_method, status |-> "completed",
   total_seats |-> Len(c.seats)]

\* Seat-claim rows carrying an id the bookings table has not handed out.
bookingSeatsDataFreshId(c) ==
  [i \in 1..Len(c.seats) |->
     [booking_id |-> Len(bookings) + 1, row |-> c.seats[i].row,
      seat_number |-> c.seats[i].seat_number,
      theater_type |-> c.theater_type]]

\* bookingData.seats.map(seat => ({booking_id: booking.id, ...}))
bookingSeatsData(c) ==
  [i \in 1..Len(c.seats) |->
     [booking_id |-> c.booking, row |-> c.seats[i].row,
      seat_number |-> c.seats[i].seat_number,
      theater_type |-> c.theater_type]]

\* bookingData.seats.map(seat => `${theater_type}-${row}-${seat_number}`)
seatIds(c) == {SeatId(c.theater_type, c.seats[i]) : i \in 1..Len(c.seats)}

\* The update with .eq('id', seatIds[0]) in place of .in('id', seatIds).
MarkFirstUnavailable(ids) ==
  LET first == CHOOSE id \in ids : TRUE
  IN [id \in DOMAIN theater_seats |->
        IF id = first THEN FALSE ELSE theater_seats[id]]

\* .from('theater_seats').update({is_available: false}).in('id', seatIds)
MarkUnavailable(ids) ==
  [id \in DOMAIN theater_seats |-> IF id \in ids THEN FALSE ELSE theater_seats[id]]

\* A catch block that gives the seats of the failed call back.
ReleaseSeatsOnFailure(c) ==
  /\ theater_seats' = [id \in DOMAIN theater_seats |->
                         IF id \in seatIds(c) THEN TRUE ELSE theater_seats[id]]
  /\ UNCHANGED <<bookings, booking_seats>>

\* A catch block that deletes the seat-claim rows of the failed call.
RollbackOnFailure(c) ==
  /\ booking_seats' = LET Keep(row) == row.booking_id # c.booking
                      IN SelectSeq(booking_seats, Keep)
  /\ UNCHANGED <<theater_seats, bookings>>

\* What a failed write of call c leaves in the store: createBooking's catch
\* block only logs and rethrows.
AfterFailedWrite(c) == UNCHANGED store

\* handlePayment without its finally block.
PaymentFailedKeepsLoading(w) ==
  IF w \in Wizards
  THEN /\ toast' = [toast EXCEPT ![w] = "paymentError"]
       /\ UNCHANGED <<mounted, step, ticketType, formData, selectedSeats,
                      paymentMethod, errors, isLoading, bookedSeats,
                      maxQuantity, loads, downloads>>
       /\ PickerState(w, selected[w])
  ELSE UNCHANGED <<wizard, toast, downloads>>

\* The catch and finally blocks of handlePayment, run when createBooking
\* rethrows (a caller that is no wizard just receives the error).
PaymentFailed(w) ==
  IF w \in Wizards
  THEN /\ toast' = [toast EXCEPT ![w] = "paymentError"]
       /\ isLoading' = SetState(isLoading, w, FALSE)
       /\ UNCHANGED <<mounted, step, ticketType, formData, selectedSeats,
                      paymentMethod, errors, bookedSeats, maxQuantity, loads,
                      downloads>>
       /\ PickerState(w, selected[w])
  ELSE UNCHANGED <<wizard, toast, downloads>>

\* A finished invocation keeps its outcome and the arguments the store saw.
Finished(c, result) ==
  [c EXCEPT !.pc = "done", !.result = result, !.name = <<>>, !.phone = <<>>,
            !.email = <<>>, !.payment_method = "", !.quantity = 0,
            !.maxQuantity = 0]

\* An invocation that failed at write n: of its arguments, the record keeps
\* those that reached the store (the tier with the booking row, the seats
\* with the seat-claim rows).
Failed(c, n) ==
  [Finished(c, "thrown") EXCEPT
     !.failedAt = n,
     !.theater_type = IF n = 1 THEN NoTier ELSE @,
     !.seats = IF n = 3 THEN @ ELSE <<>>]

\* Write n of call k failed: createBooking throws.
Throw(k, n) ==
  /\ calls' = [calls EXCEPT ![k] = Failed(calls[k], n)]
  /\ AfterFailedWrite(calls[k])
  /\ PaymentFailed(calls[k].w)
  /\ UNCHANGED <<lastRead, bookingFlow>>

\* generateIndividualTicket rejecting its promise when there is no context,
\* so that handlePayment's catch block runs.
NextTicketRejecting(k, c, i, ctx) ==
  LET w == c.w IN
  IF i > Len(c.seats)
  THEN /\ calls' = [calls EXCEPT ![k] = [Finished(c, c.result) EXCEPT !.idx = i]]
       /\ toast' = [toast EXCEPT ![w] = "success"]
       /\ step' = SetState(step, w, 6)
       /\ isLoading' = SetState(isLoading, w, FALSE)
       /\ UNCHANGED <<mounted, ticketType, formData, selectedSeats,
                      paymentMethod, errors, bookedSeats, maxQuantity, loads,
                      downloads>>
       /\ PickerState(w, selected[w])
  ELSE IF ctx
  THEN /\ calls' = [calls EXCEPT ![k] = [c EXCEPT !.pc = "render", !.idx = i]]
       /\ UNCHANGED <<wizard, toast, downloads>>
  ELSE /\ calls' = [calls EXCEPT ![k] = [Finished(c, "thrown") EXCEPT !.idx = i]]
       /\ PaymentFailed(w)

\* downloadMultipleTickets reaches ticket i of call c: past the last ticket
\* it returns, and handlePayment shows the success toast and sets step 6;
\* otherwise generateIndividualTicket asks for the canvas context (ctx) and
\* either starts rendering or returns from the executor without resolving.
NextTicket(k, c, i, ctx) ==
  LET w == c.w IN
  IF i > Len(c.seats)
  THEN /\ calls' = [calls EXCEPT ![k] = [Finished(c, c.result) EXCEPT !.idx = i]]
       /\ toast' = [toast EXCEPT ![w] = "success"]
       /\ step' = SetState(step, w, 6)
       /\ isLoading' = SetState(isLoading, w, FALSE)
       /\ UNCHANGED <<mounted, ticketType, formData, selectedSeats,
                      paymentMethod, errors, bookedSeats, maxQuantity, loads,
                      downloads>>
       /\ PickerState(w, selected[w])
  ELSE /\ calls' = [calls EXCEPT ![k] =
                      [c EXCEPT !.pc = IF ctx THEN "render" ELSE "hung", !.idx = i]]
       /\ UNCHANGED <<wizard, toast, downloads>>

\* createBooking returned to its caller.
Returned(k, c, ctx) ==
  IF c.w \in Wizards
  THEN NextTicket(k, [c EXCEPT !.result = "returned"], 1, ctx)
  ELSE /\ calls' = [calls EXCEPT ![k] = Finished(c, "returned")]
       /\ UNCHANGED <<wizard, toast, downloads>>

\* Write 1: insert the booking row.
InsertBooking(k, ok) ==
  /\ k \in DOMAIN calls
  /\ calls[k].pc = "insertBooking"
  /\ IF ok
     THEN /\ bookings' = Append(bookings, BookingRow(calls[k]))
          /\ calls' = [calls EXCEPT ![k].pc = "insertSeats",
                                    ![k].booking = Len(bookings) + 1]
          /\ UNCHANGED <<theater_seats, booking_seats, lastRead, bookingFlow, wizard,
                         toast, downloads>>
     ELSE Throw(k, 1)

\* Write 2: insert the seat-claim rows, one statement.
InsertBookingSeats(k, ok) ==
  /\ k \in DOMAIN calls
  /\ calls[k].pc = "insertSeats"
  /\ IF ok
     THEN /\ booking_seats' = booking_seats \o bookingSeatsData(calls[k])
          /\ calls' = [calls EXCEPT ![k].pc = "updateSeats"]
          /\ UNCHANGED <<theater_seats, bookings, lastRead, bookingFlow, wizard, toast,
                         downloads>>
     ELSE Throw(k, 2)

\* Write 3: mark the seats unavailable; on success createBooking returns.
UpdateSeats(k, ok, ctx) ==
  /\ k \in DOMAIN calls
  /\ calls[k].pc = "updateSeats"
  /\ IF ok
     THEN /\ theater_seats' = MarkUnavailable(seatIds(calls[k]))
          /\ Returned(k, calls[k], ctx)
          /\ UNCHANGED <<bookings, booking_seats, lastRead, bookingFlow>>
     ELSE Throw(k, 3)

\* A file name taken from the first ticket of the list for every ticket.
TicketFileOfFirstSeat(c) ==
  [bookingId |-> bookingId(c.w), row |-> c.seats[1].row,
   seatNumber |-> c.seats[1].seat_number]

\* canvas.toBlob calls back: the ticket is downloaded and the 300 ms delay
\* starts.
TicketFile(c) ==
  [bookingId |-> bookingId(c.w), row |-> c.seats[c.idx].row,
   seatNumber |-> c.seats[c.idx].seat_number]

\* genBookingId as text: RT-<Date.now() in base 36>-<four random characters>.
\* The clock has eight base-36 digits for every date from 1972 to 2059; two
\* wizards opened one after the other differ in its last digit and in the
\* random part.
Letters == <<"A", "B", "C", "D", "E", "F", "G", "H", "I", "J", "K", "L", "M",
             "N", "O", "P", "Q", "R", "S", "T", "U", "V", "W", "X", "Y", "Z">>
DigitChars == <<"0", "1", "2", "3", "4", "5", "6", "7", "8", "9">>

\* `${n}` for a natural number
RECURSIVE NumberText(_)
NumberText(n) ==
  IF n < 10 THEN <<DigitChars[n + 1]>>
  ELSE NumberText(n \div 10) \o <<DigitChars[(n % 10) + 1]>>

bookingIdText(id) ==
  <<"R", "T", "-">> \o <<"M", "H", "3", "K", "2", "J", "9">> \o NumberText(id[2])
    \o <<"-">> \o <<"Q", "7", "X">> \o NumberText(id[2])

\* String.prototype.charCodeAt for the characters of a booking id, a row
\* letter and a seat number.
charCodeAt(ch) ==
  IF ch = "-" THEN 45
  ELSE IF ch \in Digits
  THEN 47 + (CHOOSE i \in 1..10 : DigitChars[i] = ch)
  ELSE 64 + (CHOOSE i \in 1..26 : Letters[i] = ch)

\* charCode.toString(2).padStart(8, '0'), each 0 drawn as a full block
\* (written "#") and each 1 as a light block (written ".").
Bars(charCode) ==
  [j \in 1..8 |-> IF (charCode \div (2 ^ (8 - j))) % 2 = 0 THEN "#" ELSE "."]

RECURSIVE BarsOf(_)
BarsOf(barcodeData) ==
  IF barcodeData = <<>> THEN <<>>
  ELSE Bars(charCodeAt(Head(barcodeData))) \o BarsOf(Tail(barcodeData))

\* generateTicketBarcode: barcodeData is `${bookingId}-${row}${seatNumber}`.
generateTicketBarcode(id, row, seatNumber) ==
  BarsOf(bookingIdText(id) \o <<"-">> \o <<row>> \o NumberText(seatNumber))

\* String.prototype.substring(0, n)
substring0(s, n) == SubSeq(s, 1, Min(n, Len(s)))

\* The barcode text generateIndividualTicket draws on the ticket image:
\* ctx.fillText(barcode.substring(0, 50), 480, 345).
BarcodeDrawn(ticketInfo) ==
  substring0(generateTicketBarcode(ticketInfo.bookingId, ticketInfo.row,
                                   ticketInfo.seatNumber), 50)

BlobReady(k) ==
  /\ k \in DOMAIN calls
  /\ calls[k].pc = "render"
  /\ downloads' = [downloads EXCEPT ![calls[k].w] = Append(@, TicketFile(calls[k]))]
  /\ calls' = [calls EXCEPT ![k].pc = "delay"]
  /\ UNCHANGED <<store, lastRead, bookingFlow, wizard, toast>>

\* The delay between two downloads has elapsed.
DelayElapsed(k, ctx) ==
  /\ k \in DOMAIN calls
  /\ calls[k].pc = "delay"
  /\ NextTicket(k, calls[k], calls[k].idx + 1, ctx)
  /\ UNCHANGED <<store, lastRead, bookingFlow>>

\* A direct caller of the service invokes createBooking.
ApiCreateBooking(type, seats) ==
  /\ Len(calls) < MaxPayments
  /\ calls' = Append(calls, NewCall(0, NameAli, PhoneGood, <<>>, type, seats,
                                    "vodafone", Len(seats), HardCap))
  /\ UNCHANGED <<store, lastRead, bookingFlow, wizard, toast, downloads>>

\* A direct caller of the service invokes one of the three readers.
ApiRead(fn, type, ok) ==
  /\ LET r == CASE fn = "getAvailableSeats" -> getAvailableSeats(type, ok)
                [] fn = "getBookedSeats" -> getBookedSeats(type, ok)
                [] fn = "getSeatLayout" -> getSeatLayout(type, ok)
     IN lastRead' = [fn |-> fn, theater_type |-> type, ok |-> ok,
                     threw |-> r.threw, data |-> r.data]
  /\ UNCHANGED <<store, calls, wizard, toast, downloads, bookingFlow>>

\* -------------------------------------------------------------- the wizard
\* A type button that leaves the seats selected for the previous tier.
ChooseTypeKeepsSeats(w, type) ==
  /\ mounted[w]
  /\ step[w] = 1
  /\ type # ticketType[w] => PendingLoads(w) < MaxPendingLoads
  /\ ticketType' = [ticketType EXCEPT ![w] = type]
  /\ formData' = [formData EXCEPT ![w].quantity = 1]
  /\ step' = [step EXCEPT ![w] = 2]
  /\ IF type # ticketType[w]
     THEN /\ isLoading' = [isLoading EXCEPT ![w] = TRUE]
          /\ loads' = [loads EXCEPT ![w][type] = @ + 1]
     ELSE UNCHANGED <<isLoading, loads>>
  /\ PickerState(w, selected[w])
  /\ UNCHANGED <<store, calls, lastRead, bookingFlow, mounted, paymentMethod, errors,
                 selectedSeats, bookedSeats, maxQuantity, toast, downloads>>

\* Step 1, a ticket type button; the useEffect on ticketType then calls
\* loadBookedSeats when the type changed, which sets isLoading and sends the
\* getBookedSeats query.
ChooseType(w, type) ==
  /\ mounted[w]
  /\ step[w] = 1
  /\ type # ticketType[w] => PendingLoads(w) < MaxPendingLoads
  /\ ticketType' = [ticketType EXCEPT ![w] = type]
  /\ formData' = [formData EXCEPT ![w].quantity = 1]
  /\ selectedSeats' = [selectedSeats EXCEPT ![w] = <<>>]
  /\ step' = [step EXCEPT ![w] = 2]
  /\ IF type # ticketType[w]
     THEN /\ isLoading' = [isLoading EXCEPT ![w] = TRUE]
          /\ loads' = [loads EXCEPT ![w][type] = @ + 1]
     ELSE UNCHANGED <<isLoading, loads>>
  /\ PickerState(w, selected[w])
  /\ UNCHANGED <<store, calls, lastRead, bookingFlow, mounted, paymentMethod, errors,
                 bookedSeats, maxQuantity, toast, downloads>>

\* The rest of loadBookedSeats, once getBookedSeats has answered.
LoadBookedSeatsDone(w, type, ok) ==
  /\ mounted[w]
  /\ loads[w][type] > 0
  /\ loads' = [loads EXCEPT ![w][type] = @ - 1]
  /\ LET booked == getBookedSeats(type, ok)
         bookedSet == {SeatKey(booked.data[i]) : i \in 1..Len(booked.data)}
         maxAvailable == TotalSeats(type) - Cardinality(bookedSet)
     IN IF booked.threw
        THEN /\ toast' = [toast EXCEPT ![w] = "loadError"]
             /\ UNCHANGED <<bookedSeats, maxQuantity>>
        ELSE /\ bookedSeats' = [bookedSeats EXCEPT ![w] = bookedSet]
             /\ maxQuantity' = [maxQuantity EXCEPT ![w] = Min(maxAvailable, HardCap)]
             /\ UNCHANGED toast
  /\ isLoading' = [isLoading EXCEPT ![w] = FALSE]
  /\ UNCHANGED <<store, calls, lastRead, bookingFlow, mounted, step, ticketType, formData,
                 selectedSeats, paymentMethod, errors, downloads>>
  /\ PickerState(w, selected[w])

\* Step 2, the quantity field: value is parseInt(e.target.value) || 0.
handleQuantityChange(w, input) ==
  /\ mounted[w]
  /\ step[w] = 2
  /\ ticketType[w] # NoTier
  /\ formData' = [formData EXCEPT ![w].quantity = Min(input, maxQuantity[w])]
  /\ selectedSeats' = [selectedSeats EXCEPT ![w] = <<>>]
  /\ UNCHANGED <<store, calls, lastRead, bookingFlow, mounted, step, ticketType,
                 paymentMethod, errors, isLoading, bookedSeats, maxQuantity,
                 selected, loads, toast, downloads>>

\* Step 2, Next.
Step2Next(w) ==
  /\ mounted[w]
  /\ step[w] = 2
  /\ ticketType[w] # NoTier
  /\ step' = [step EXCEPT ![w] = 3]
  /\ UNCHANGED <<store, calls, lastRead, bookingFlow, mounted, ticketType, formData,
                 selectedSeats, paymentMethod, errors, isLoading, bookedSeats,
                 maxQuantity, loads, toast, downloads>>
  /\ PickerState(w, selected[w])

\* A BackBtn rendered on the confirmation step as well.
BackFromConfirmation(w) ==
  /\ mounted[w]
  /\ step[w] \in 2..6
  /\ step[w] \in {2, 3} => ticketType[w] # NoTier
  /\ step' = [step EXCEPT ![w] = @ - 1]
  /\ UNCHANGED <<store, calls, lastRead, bookingFlow, mounted, ticketType, formData,
                 selectedSeats, paymentMethod, errors, isLoading, bookedSeats,
                 maxQuantity, loads, toast, downloads>>
  /\ PickerState(w, selected[w])

\* BackBtn of steps 2 to 5: setStep(step - 1).
Back(w) ==
  /\ mounted[w]
  /\ step[w] \in 2..5
  /\ step[w] \in {2, 3} => ticketType[w] # NoTier
  /\ step' = [step EXCEPT ![w] = @ - 1]
  /\ UNCHANGED <<store, calls, lastRead, bookingFlow, mounted, ticketType, formData,
                 selectedSeats, paymentMethod, errors, isLoading, bookedSeats,
                 maxQuantity, loads, toast, downloads>>
  /\ PickerState(w, selected[w])

\* A toggle that adds a seat although the selection is full.
ToggleNextNoLimit(sel, seat, quantity) ==
  IF \E i \in 1..Len(sel) : sel[i] = seat
  THEN LET idx == CHOOSE i \in 1..Len(sel) : sel[i] = seat
       IN SubSeq(sel, 1, idx - 1) \o SubSeq(sel, idx + 1, Len(sel))
  ELSE Append(sel, seat)

\* SeatPicker.toggle without its first line: the next selection.
ToggleNext(sel, seat, quantity) ==
  IF \E i \in 1..Len(sel) : sel[i] = seat
  THEN LET idx == CHOOSE i \in 1..Len(sel) : sel[i] = seat
       IN SubSeq(sel, 1, idx - 1) \o SubSeq(sel, idx + 1, Len(sel))
  ELSE IF Len(sel) < quantity THEN Append(sel, seat) ELSE sel

\* Step 3, a click on a seat button of the picker (a busy seat's button is
\* disabled, and toggle returns at once for it).
toggle(w, seat) ==
  /\ mounted[w]
  /\ PickerShown(step[w], ticketType[w], isLoading[w])
  /\ seat \in LayoutSeats(ticketType[w])
  /\ SeatKey(seat) \notin bookedSeats[w]
  /\ LET next == ToggleNext(selected[w], seat, formData[w].quantity)
     IN /\ selected' = [selected EXCEPT ![w] = next]
        /\ selectedSeats' = [selectedSeats EXCEPT ![w] = next]
  /\ UNCHANGED <<store, calls, lastRead, bookingFlow, mounted, step, ticketType, formData,
                 paymentMethod, errors, isLoading, bookedSeats, maxQuantity,
                 loads, toast, downloads>>

\* Step 3 Next without the count check and without the disabled attribute.
Step3NextUnguarded(w) ==
  /\ mounted[w]
  /\ step[w] = 3
  /\ ticketType[w] # NoTier
  /\ step' = [step EXCEPT ![w] = 4]
  /\ UNCHANGED <<store, calls, lastRead, bookingFlow, mounted, ticketType, formData,
                 selectedSeats, paymentMethod, errors, isLoading, bookedSeats,
                 maxQuantity, loads, toast, downloads>>
  /\ PickerState(w, selected[w])

\* Step 3, Next: the button is disabled unless the count matches.
Step3Next(w) ==
  /\ mounted[w]
  /\ step[w] = 3
  /\ ticketType[w] # NoTier
  /\ Len(selectedSeats[w]) = formData[w].quantity
  /\ step' = [step EXCEPT ![w] = 4]
  /\ UNCHANGED <<store, calls, lastRead, bookingFlow, mounted, ticketType, formData,
                 selectedSeats, paymentMethod, errors, isLoading, bookedSeats,
                 maxQuantity, loads, toast, downloads>>
  /\ PickerState(w, selected[w])

\* Step 4, the three text fields.
EditField(w, field, value) ==
  /\ mounted[w]
  /\ step[w] = 4
  /\ formData' = [formData EXCEPT ![w][field] = value]
  /\ UNCHANGED <<store, calls, lastRead, bookingFlow, mounted, step, ticketType,
                 selectedSeats, paymentMethod, errors, isLoading, bookedSeats,
                 maxQuantity, selected, loads, toast, downloads>>

\* Step 4, Next: validate, then advance or show the errors.
Step4Next(w) ==
  /\ mounted[w]
  /\ step[w] = 4
  /\ LET newErrors == validate(formData[w])
     IN IF newErrors = {}
        THEN /\ errors' = [errors EXCEPT ![w] = {}]
             /\ step' = [step EXCEPT ![w] = 5]
        ELSE /\ errors' = [errors EXCEPT ![w] = newErrors]
             /\ UNCHANGED step
  /\ UNCHANGED <<store, calls, lastRead, bookingFlow, mounted, ticketType, formData,
                 selectedSeats, paymentMethod, isLoading, bookedSeats,
                 maxQuantity, selected, loads, toast, downloads>>

\* Step 5, a payment method button.
SetPaymentMethod(w, method) ==
  /\ mounted[w]
  /\ step[w] = 5
  /\ paymentMethod' = [paymentMethod EXCEPT ![w] = method]
  /\ UNCHANGED <<store, calls, lastRead, bookingFlow, mounted, step, ticketType, formData,
                 selectedSeats, errors, isLoading, bookedSeats, maxQuantity,
                 selected, loads, toast, downloads>>

\* Step 5, Confirm Payment (disabled while isLoading): handlePayment up to
\* its first await, the booking insert of createBooking.
handlePayment(w) ==
  /\ mounted[w]
  /\ step[w] = 5
  /\ ~isLoading[w]
  /\ Len(calls) < MaxPayments
  /\ isLoading' = [isLoading EXCEPT ![w] = TRUE]
  /\ calls' = Append(calls,
       NewCall(w, formData[w].name, formData[w].phone, formData[w].email,
               IF ticketType[w] = NoTier THEN "classic" ELSE ticketType[w],
               selectedSeats[w], paymentMethod[w], formData[w].quantity,
               maxQuantity[w]))
  /\ UNCHANGED <<store, lastRead, bookingFlow, mounted, step, ticketType, formData,
                 selectedSeats, paymentMethod, errors, bookedSeats,
                 maxQuantity, selected, loads, toast, downloads>>

\* A close that aborts the wizard's createBooking calls still in flight.
CloseCancelling(w) ==
  /\ mounted[w]
  /\ mounted' = [mounted EXCEPT ![w] = FALSE]
  /\ step' = [step EXCEPT ![w] = 1]
  /\ ticketType' = [ticketType EXCEPT ![w] = NoTier]
  /\ formData' = [formData EXCEPT ![w] = InitForm]
  /\ selectedSeats' = [selectedSeats EXCEPT ![w] = <<>>]
  /\ paymentMethod' = [paymentMethod EXCEPT ![w] = "vodafone"]
  /\ errors' = [errors EXCEPT ![w] = {}]
  /\ isLoading' = [isLoading EXCEPT ![w] = FALSE]
  /\ bookedSeats' = [bookedSeats EXCEPT ![w] = {}]
  /\ maxQuantity' = [maxQuantity EXCEPT ![w] = HardCap]
  /\ selected' = [selected EXCEPT ![w] = <<>>]
  /\ loads' = [loads EXCEPT ![w] = [t \in Tiers |-> 0]]
  /\ calls' = [k \in DOMAIN calls |->
                IF calls[k].w = w /\ calls[k].pc # "done"
                THEN Finished(calls[k], "cancelled") ELSE calls[k]]
  /\ UNCHANGED <<store, lastRead, bookingFlow, toast, downloads>>

\* The close button, the backdrop or Escape: onClose unmounts the modal and
\* its state is gone; requests already sent stay in flight.
Close(w) ==
  /\ mounted[w]
  /\ mounted' = [mounted EXCEPT ![w] = FALSE]
  /\ step' = [step EXCEPT ![w] = 1]
  /\ ticketType' = [ticketType EXCEPT ![w] = NoTier]
  /\ formData' = [formData EXCEPT ![w] = InitForm]
  /\ selectedSeats' = [selectedSeats EXCEPT ![w] = <<>>]
  /\ paymentMethod' = [paymentMethod EXCEPT ![w] = "vodafone"]
  /\ errors' = [errors EXCEPT ![w] = {}]
  /\ isLoading' = [isLoading EXCEPT ![w] = FALSE]
  /\ bookedSeats' = [bookedSeats EXCEPT ![w] = {}]
  /\ maxQuantity' = [maxQuantity EXCEPT ![w] = HardCap]
  /\ selected' = [selected EXCEPT ![w] = <<>>]
  /\ loads' = [loads EXCEPT ![w] = [t \in Tiers |-> 0]]
  /\ UNCHANGED <<store, calls, lastRead, bookingFlow, toast, downloads>>

\* ------------------------------------------- the receipt-upload BookingFlow
\* validate of booking-flow.tsx: as above, without the upper limit on the
\* quantity.
validateBookingFlow(fd) ==
  (IF Len(Trim(fd.name)) < MinNameLen THEN {"name"} ELSE {}) \cup
  (IF ~PhonePattern(StripWhitespace(fd.phone)) THEN {"phone"} ELSE {}) \cup
  (IF fd.email # <<>> /\ ~EmailPattern(fd.email) THEN {"email"} ELSE {}) \cup
  (IF fd.quantity < 1 THEN {"quantity"} ELSE {})

\* file.size is in bytes.
MaxReceiptBytes == 10 * 1024 * 1024
ReceiptTypes == {"image/jpeg", "image/png", "application/pdf"}

\* The files a user may pick or drop: the accept attribute of the input is a
\* hint only, and a drop is not filtered at all.
ReceiptFiles ==
  [size : {1, MaxReceiptBytes, MaxReceiptBytes + 1},
   type : ReceiptTypes \cup {"image/gif"}]

\* The state of the other wizards and of the store, which BookingFlow never
\* touches.
BookingFlowOnly == UNCHANGED <<store, calls, lastRead, wizard, toast, downloads>>

\* processFile without its size check.
processFileAnySize(file) ==
  IF file.type \notin ReceiptTypes
  THEN bookingFlow' = [bookingFlow EXCEPT !.toast = "type"]
  ELSE bookingFlow' = [bookingFlow EXCEPT !.receipt = <<file>>,
                                          !.toast = "uploaded"]

\* processFile: two early returns with an error toast, then setReceipt.
processFile(file) ==
  IF file.size > MaxReceiptBytes
  THEN bookingFlow' = [bookingFlow EXCEPT !.toast = "size"]
  ELSE IF file.type \notin ReceiptTypes
  THEN bookingFlow' = [bookingFlow EXCEPT !.toast = "type"]
  ELSE bookingFlow' = [bookingFlow EXCEPT !.receipt = <<file>>,
                                          !.toast = "uploaded"]

\* Step 6, the hidden file input: onChange passes files[0] to processFile.
FileInputChange(file) ==
  /\ bookingFlow.open
  /\ bookingFlow.step = 6
  /\ processFile(file)
  /\ BookingFlowOnly

\* Step 6, a file dropped on the upload area.
handleDrop(file) ==
  /\ bookingFlow.open
  /\ bookingFlow.step = 6
  /\ processFile(file)
  /\ BookingFlowOnly

\* Step 6, the Confirm button (disabled while there is no receipt).
handleConfirm ==
  /\ bookingFlow.open
  /\ bookingFlow.step = 6
  /\ bookingFlow.receipt # <<>>
  /\ IF bookingFlow.receipt = <<>>
     THEN bookingFlow' = [bookingFlow EXCEPT !.toast = "receipt"]
     ELSE bookingFlow' = [bookingFlow EXCEPT !.step = 7]
  /\ BookingFlowOnly

\* The buttons that only move between steps: Next of step 1, goNextFromReview,
\* goNext3, goNext4, the Back buttons and the Edit buttons of the review.
BookingFlowGoto(from, to) ==
  /\ bookingFlow.open
  /\ bookingFlow.step = from
  /\ <<from, to>> \in {<<1, 2>>, <<3, 4>>, <<4, 5>>, <<5, 6>>,
                        <<2, 1>>, <<3, 2>>, <<4, 3>>, <<5, 4>>, <<6, 5>>}
  /\ bookingFlow' = [bookingFlow EXCEPT !.step = to]
  /\ BookingFlowOnly

\* Step 2, a form field: the value is stored and the field's error cleared;
\* the quantity is parseInt(e.target.value) || 1.
BookingFlowEdit(field, value) ==
  /\ bookingFlow.open
  /\ bookingFlow.step = 2
  /\ bookingFlow' =
       [bookingFlow EXCEPT
          !.formData = [@ EXCEPT ![field] =
                          IF field = "quantity" /\ value = 0 THEN 1 ELSE value],
          !.errors = @ \ {field}]
  /\ BookingFlowOnly

\* Step 2, Next (disabled while validate reports an error).
goNext2 ==
  /\ bookingFlow.open
  /\ bookingFlow.step = 2
  /\ validateBookingFlow(bookingFlow.formData) = {}
  /\ LET errs == validateBookingFlow(bookingFlow.formData)
     IN bookingFlow' = [bookingFlow EXCEPT
                          !.errors = errs,
                          !.step = IF errs = {} THEN 3 ELSE @]
  /\ BookingFlowOnly

\* Step 4, a payment method radio button.
BookingFlowSetPaymentMethod(m) ==
  /\ bookingFlow.open
  /\ bookingFlow.step = 4
  /\ bookingFlow' = [bookingFlow EXCEPT !.paymentMethod = m]
  /\ BookingFlowOnly

\* onClose: the modal is unmounted and its state is gone.
BookingFlowClose ==
  /\ bookingFlow.open
  /\ bookingFlow' = [InitBookingFlow EXCEPT !.open = FALSE]
  /\ BookingFlowOnly

\* ---------------------------------------------------------- specifications
\* The three writes of the createBooking calls in flight.  e.writes holds
\* the answers the store may give a write, e.canvas whether the browser
\* hands out a 2D context.
ServiceStep(e) ==
  \E k \in 1..MaxPayments :
    \/ \E ok \in e.writes : InsertBooking(k, ok)
    \/ \E ok \in e.writes : InsertBookingSeats(k, ok)
    \/ \E ok \in e.writes, ctx \in e.canvas : UpdateSeats(k, ok, ctx)

\* The ticket downloads of the handlePayment calls in flight.
TicketStep(e) ==
  \E k \in 1..MaxPayments :
    \/ BlobReady(k)
    \/ \E ctx \in e.canvas : DelayElapsed(k, ctx)

\* The number of times wizard w has invoked createBooking so far.
PaymentsOf(w) == Cardinality({k \in DOMAIN calls : calls[k].w = w})

\* What a user does with wizard w up to the payment step, typing values of
\* the sets in u.
FillStep(w, u, e) ==
  \/ \E type \in u.tiers : ChooseType(w, type)
  \/ \E type \in Tiers, ok \in e.reads : LoadBookedSeatsDone(w, type, ok)
  \/ \E input \in u.quantities : handleQuantityChange(w, input)
  \/ Step2Next(w)
  \/ Back(w)
  \/ \E seat \in AllSeats : toggle(w, seat)
  \/ Step3Next(w)
  \/ \E v \in u.names : EditField(w, "name", v)
  \/ \E v \in u.phones : EditField(w, "phone", v)
  \/ \E v \in u.emails : EditField(w, "email", v)
  \/ Step4Next(w)

\* Everything a user does with wizard w, typing values of the sets in u and
\* pressing Confirm Payment at most u.payments times.
WizardStep(w, u, e) ==
  \/ FillStep(w, u, e)
  \/ \E m \in u.methods : SetPaymentMethod(w, m)
  \/ PaymentsOf(w) < u.payments /\ handlePayment(w)

\* Direct use of the service: any non-empty selection of seats of a tier.
SeatLists(type) == {OrderSeats(S) : S \in SUBSET LayoutSeats(type) \ {{}}}

ApiCalls(types) ==
  \E type \in types : \E seats \in SeatLists(type) : ApiCreateBooking(type, seats)

\* Direct use of the three readers.
ApiReads(e) ==
  \E fn \in {"getAvailableSeats", "getBookedSeats", "getSeatLayout"} :
    \E type \in Tiers, ok \in e.reads : ApiRead(fn, type, ok)

\* The store may fail any request; the canvas context may be missing.
AnyEnv == [writes |-> BOOLEAN, reads |-> BOOLEAN, canvas |-> BOOLEAN]
\* The store and the browser work.
GoodEnv == [writes |-> {TRUE}, reads |-> {TRUE}, canvas |-> {TRUE}]

QuantityInputs == 0..MaxQuantityInput

\* A user who books vip seats, typing a valid form at once.
VipUser ==
  [tiers |-> {"vip"}, quantities |-> QuantityInputs, names |-> {NameAli},
   phones |-> {PhoneGood}, emails |-> {<<>>}, methods |-> {"card"},
   payments |-> MaxPayments]

\* A user who changes their mind about the tier and wants two seats.
FussyUser ==
  [tiers |-> Tiers, quantities |-> {2}, names |-> {NameAli},
   phones |-> {PhoneGood}, emails |-> {<<>>}, methods |-> {"vodafone"},
   payments |-> 1]

\* A user who books one or two vip seats without detours.
QuickUser ==
  [tiers |-> {"vip"}, quantities |-> {1, 2}, names |-> {NameAli},
   phones |-> {PhoneGood}, emails |-> {<<>>}, methods |-> {"vodafone"},
   payments |-> 1]

\* A user who books one vip seat and types every kind of name, phone and
\* email into the form.
FormUser ==
  [tiers |-> {"vip"}, quantities |-> {1}, names |-> Names, phones |-> Phones,
   emails |-> Emails, methods |-> {"vodafone"}, payments |-> 0]

\* A user who wants one seat, changes tier on the way and presses Confirm
\* Payment whenever the button lets them.
HastyUser ==
  [tiers |-> Tiers, quantities |-> {1}, names |-> {NameAli},
   phones |-> {PhoneGood}, emails |-> {<<>>}, methods |-> {"vodafone"},
   payments |-> MaxPayments]

\* One wizard against the store, with every failure the store and the
\* browser can produce; the user may close the wizard at any time.
Next ==
  \/ WizardStep(1, VipUser, AnyEnv)
  \/ Close(1)
  \/ ServiceStep(AnyEnv)
  \/ TicketStep(AnyEnv)

Spec == Init /\ [][Next]_vars

\* The same wizard where every request sent gets its answer and every
\* callback and timer that is due runs: the store answers each write, with
\* success or with an error, toBlob calls back and the 300 ms timer fires.
SpecLive ==
  /\ Spec
  /\ WF_vars(ServiceStep(AnyEnv))
  /\ WF_vars(TicketStep(AnyEnv))

\* The service used directly: createBooking calls in flight together.
NextApi ==
  \/ ApiCalls(Tiers)
  \/ ServiceStep(AnyEnv)

SpecApi == Init /\ [][NextApi]_vars

\* The readers used directly, between the writes of bookings of vip A1.
NextRead ==
  \/ ApiReads(AnyEnv)
  \/ ApiCreateBooking("vip", <<[row |-> "A", seat_number |-> 1]>>)
  \/ ServiceStep(AnyEnv)

SpecRead == Init /\ [][NextRead]_vars

\* One wizard up to the payment step, its user filling in the form.
NextForm == FillStep(1, FormUser, GoodEnv)

SpecForm == Init /\ [][NextForm]_vars

\* Two wizards open at once against a store and a browser that work.
NextTwo ==
  \/ WizardStep(1, QuickUser, GoodEnv)
  \/ WizardStep(2, QuickUser, GoodEnv)
  \/ ServiceStep(GoodEnv)
  \/ TicketStep(GoodEnv)

SpecTwo == Init /\ [][NextTwo]_vars

\* One wizard, its user changing tier, while another customer books the
\* classic seat A1.
NextFussy ==
  \/ WizardStep(1, FussyUser, GoodEnv)
  \/ ApiCreateBooking("classic", <<[row |-> "A", seat_number |-> 1]>>)
  \/ ServiceStep(GoodEnv)
  \/ TicketStep(GoodEnv)

SpecFussy == Init /\ [][NextFussy]_vars

\* One wizard whose user changes tier and pays, the store and the browser
\* working.
NextHasty ==
  \/ WizardStep(1, HastyUser, GoodEnv)
  \/ ServiceStep(GoodEnv)
  \/ TicketStep(GoodEnv)

SpecHasty == Init /\ [][NextHasty]_vars

\* The receipt-upload wizard on its own, its user trying every kind of file.
NextReceipt ==
  \/ \E from \in 1..6, to \in 1..6 : BookingFlowGoto(from, to)
  \/ \E v \in {<<>>, NameAli} : BookingFlowEdit("name", v)
  \/ \E v \in {PhoneShort, PhoneGood} : BookingFlowEdit("phone", v)
  \/ \E v \in {<<>>, EmailNoDot} : BookingFlowEdit("email", v)
  \/ \E v \in QuantityInputs : BookingFlowEdit("quantity", v)
  \/ goNext2
  \/ \E m \in PaymentMethods : BookingFlowSetPaymentMethod(m)
  \/ \E file \in ReceiptFiles : FileInputChange(file)
  \/ \E file \in ReceiptFiles : handleDrop(file)
  \/ handleConfirm
  \/ BookingFlowClose

SpecReceipt == Init /\ [][NextReceipt]_vars

\* ------------------------------------------------------------------ claims
\* The seat-claim rows that reference booking b.
ClaimsOf(b) == {i \in DOMAIN booking_seats : booking_seats[i].booking_id = b}

\* The seats a successful getBookedSeats(type) returns in this state.
BookedNow(type) ==
  LET r == getBookedSeats(type, TRUE) IN {r.data[i] : i \in 1..Len(r.data)}

C2_NoSeatClaimedByTwoBookings ==
  \A i, j \in DOMAIN booking_seats :
    ( /\ booking_seats[i].theater_type = booking_seats[j].theater_type
      /\ booking_seats[i].row = booking_seats[j].row
      /\ booking_seats[i].seat_number = booking_seats[j].seat_number )
    => booking_seats[i].booking_id = booking_seats[j].booking_id

\* C3: a createBooking invoked with the tier and seat set of an earlier call
\* that has returned and marked the seats unavailable is rejected, or at
\* least adds no seat-claim rows for those seats.
C3_RepeatedBookingAddsNoClaims ==
  \A k \in DOMAIN calls :
    calls[k].repeat => /\ ClaimsOf(calls[k].booking) = {}
                       /\ calls[k].result # "returned"

\* C4: a booking that no createBooking call is still working on has a
\* total_seats equal to the number of seat-claim rows that reference it.
C4_TotalSeatsMatchesClaims ==
  \A b \in DOMAIN bookings :
    (\A k \in DOMAIN calls :
       calls[k].booking = b => calls[k].result # "pending")
    => bookings[b].total_seats = Cardinality(ClaimsOf(b))

\* C5: read against one state of the store, getAvailableSeats(tier) and
\* getBookedSeats(tier) share no (row, seat_number); when both reads
\* succeed, every seat of the tier is in exactly one of the results, once.
C5_AvailableAndBookedPartition ==
  \A type \in Tiers : \A okA, okB \in BOOLEAN :
    LET a == getAvailableSeats(type, okA).data
        b == getBookedSeats(type, okB).data
        A == {<<a[i].row, a[i].seat_number>> : i \in 1..Len(a)}
        B == {SeatKey(b[i]) : i \in 1..Len(b)}
    IN /\ A \cap B = {}
       /\ (okA /\ okB) =>
            /\ A \cup B = {SeatKey(s) : s \in SeatsOf(type)}
            /\ Cardinality(A) = Len(a)
            /\ Cardinality(B) = Len(b)

\* A tier with a seat in either result, after a booking has returned.
C5_Witness ==
  \E type \in Tiers :
    /\ getAvailableSeats(type, TRUE).data # <<>>
    /\ getBookedSeats(type, TRUE).data # <<>>
    /\ \E k \in DOMAIN calls : calls[k].result = "returned"

PaymentFails(k) ==
  /\ k \in DOMAIN calls
  /\ calls[k].w \in Wizards
  /\ calls[k].result = "pending"
  /\ calls'[k].result = "thrown"

\* The handler of a failed payment: error toast, isLoading false, no ticket
\* download, and the step, the form data and the selected seats left as they
\* are.
FailureHandled(w) ==
  /\ toast'[w] = "paymentError"
  /\ ~isLoading'[w]
  /\ downloads' = downloads
  /\ step'[w] = step[w]
  /\ formData'[w] = formData[w]
  /\ selectedSeats'[w] = selectedSeats[w]

\* C8, amended: when createBooking fails during handlePayment the wizard
\* shows the error toast, resets isLoading, downloads nothing and stays at
\* the step it is at with form data and selected seats unchanged (step 5
\* unless the user has pressed Back meanwhile); a failed attempt never
\* acts again, and step 6 is entered only by an attempt that returned.
C8_FailedPaymentHaltsWizard ==
  [][\A k \in 1..MaxPayments :
       /\ PaymentFails(k) => FailureHandled(calls[k].w)
       /\ (k \in DOMAIN calls /\ calls[k].result = "thrown") => calls'[k] = calls[k]
       /\ \A w \in Wizards :
            (step'[w] = 6 /\ step[w] # 6) =>
              \E j \in DOMAIN calls :
                /\ calls[j].w = w
                /\ calls[j].pc # "done"
                /\ calls'[j].pc = "done"
                /\ calls'[j].result = "returned"]_vars

\* C8 as stated: at the failure the wizard, still open, is at step 5.
C8_FailedPaymentStaysAtStep5 ==
  [][\A k \in 1..MaxPayments :
       (PaymentFails(k) /\ mounted[calls[k].w]) =>
         /\ FailureHandled(calls[k].w)
         /\ step'[calls[k].w] = 5]_vars

\* A payment of the wizard has failed at the third write, the booking and
\* its seat claims stored, and the wizard shows the error at step 5.
C8_Witness ==
  \E k \in DOMAIN calls :
    /\ calls[k].w = 1
    /\ calls[k].result = "thrown"
    /\ calls[k].failedAt = 3
    /\ toast[1] = "paymentError"
    /\ step[1] = 5
    /\ ~isLoading[1]
    /\ mounted[1]

\* The write a call is about to issue, by position in createBooking.
WriteNo(pc) ==
  CASE pc = "insertBooking" -> 1 [] pc = "insertSeats" -> 2
    [] pc = "updateSeats" -> 3 [] OTHER -> 4

IsPrefix(p, q) == Len(p) <= Len(q) /\ SubSeq(q, 1, Len(p)) = p

\* C9: createBooking issues its writes in the order insert booking, insert
\* seat claims, mark seats; a failure at write k issues none of the later
\* writes, leaves what the earlier writes stored (no rollback, no retry)
\* and is thrown to the caller.
C9_WritesInOrderNoRollback ==
  [][/\ IsPrefix(bookings, bookings')
     /\ IsPrefix(booking_seats, booking_seats')
     /\ \A k \in DOMAIN calls :
          LET c == calls[k]
              d == calls'[k]
          IN /\ c.result = "thrown" => d = c
             /\ d.pc # c.pc => WriteNo(d.pc) > WriteNo(c.pc)
             /\ (c.result = "pending" /\ d.result = "thrown") =>
                  /\ store' = store
                  /\ d.pc = "done"
                  /\ d.failedAt = WriteNo(c.pc)
             /\ (c.pc = "insertBooking" /\ d.result # "thrown" /\ d.pc # c.pc) =>
                  /\ d.pc = "insertSeats"
                  /\ Len(bookings') = Len(bookings) + 1
                  /\ d.booking = Len(bookings')
                  /\ booking_seats' = booking_seats
                  /\ theater_seats' = theater_seats
             /\ (c.pc = "insertSeats" /\ d.result # "thrown" /\ d.pc # c.pc) =>
                  /\ d.pc = "updateSeats"
                  /\ bookings' = bookings
                  /\ Len(booking_seats') = Len(booking_seats) + Len(c.seats)
                  /\ theater_seats' = theater_seats
             /\ (c.pc = "updateSeats" /\ d.result # "thrown" /\ d.pc # c.pc) =>
                  /\ d.result = "returned"
                  /\ bookings' = bookings
                  /\ booking_seats' = booking_seats
                  /\ \A id \in seatIds(c) : ~theater_seats'[id]
     /\ store' # store =>
          \E k \in DOMAIN calls :
            calls[k].result = "pending" /\ calls'[k].pc # calls[k].pc]_vars

\* A call has failed at its third write: its booking row and its seat-claim
\* rows are stored and its seats are still available.
C9_Witness ==
  \E k \in DOMAIN calls :
    /\ calls[k].result = "thrown"
    /\ calls[k].failedAt = 3
    /\ calls[k].booking \in DOMAIN bookings
    /\ Cardinality(ClaimsOf(calls[k].booking)) = Len(calls[k].seats)
    /\ \A id \in seatIds(calls[k]) : theater_seats[id]

\* C10: whenever the wizard invokes createBooking the submitted data is
\* valid: trimmed name of length >= 2, stripped phone matching 01 and nine
\* digits, email empty or well-formed, and a quantity in
\* 1..min(maxAvailable, 10), maxAvailable as the wizard last computed it.
C10_SubmittedDataIsValid ==
  \A k \in DOMAIN calls :
    (calls[k].w \in Wizards /\ calls[k].pc = "insertBooking") =>
      /\ Len(Trim(calls[k].name)) >= MinNameLen
      /\ PhonePattern(StripWhitespace(calls[k].phone))
      /\ calls[k].email = <<>> \/ EmailPattern(calls[k].email)
      /\ calls[k].quantity \in 1..Min(calls[k].maxQuantity, HardCap)

\* C11, amended: the wizard moves from step 3 to step 4 only when the number
\* of selected seats equals the requested quantity, and in every state with
\* the wizard at step 4 or 5 selectedSeats has exactly formData.quantity
\* elements.
C11_SeatCountMatchesQuantity ==
  [][\A w \in Wizards :
       /\ (step[w] = 3 /\ step'[w] = 4) =>
            Len(selectedSeats[w]) = formData[w].quantity
       /\ step'[w] \in {4, 5} =>
            Len(selectedSeats'[w]) = formData'[w].quantity]_vars

\* C11 as stated: in every state with step >= 4, the confirmation step
\* included, selectedSeats has exactly formData.quantity elements.
C11_SeatCountMatchesAtEveryLaterStep ==
  \A w \in Wizards :
    step[w] >= 4 => Len(selectedSeats[w]) = formData[w].quantity

\* The wizard is at the payment step with two seats selected for a quantity
\* of two, its picker remounted since they were selected.
C11_Witness ==
  /\ step[1] = 5
  /\ formData[1].quantity = 2
  /\ Len(selectedSeats[1]) = 2
  /\ selected[1] = <<>>

\* C12: once the booked seats of the chosen tier have been loaded, the
\* quantity the wizard stores never exceeds min(capacity - booked, 10), also
\* when it was typed before the load completed.
C12_QuantityClampedAfterLoad ==
  \A w \in Wizards :
    (ticketType[w] # NoTier /\ PendingLoads(w) = 0) =>
      formData[w].quantity <=
        Min(TotalSeats(ticketType[w]) - Cardinality(bookedSeats[w]), HardCap)

\* The two characters 01 followed by exactly nine decimal digits.
IsMobileNumber(q) ==
  /\ Len(q) = 11
  /\ SubSeq(q, 1, 2) = <<"0", "1">>
  /\ \A i \in 3..11 : q[i] \in Digits

\* The phone without any of its whitespace characters.
WithoutWhitespace(s) ==
  LET keep == {i \in 1..Len(s) : s[i] \notin Whitespace}
      F[i \in 0..Len(s)] ==
        IF i = 0 THEN <<>>
        ELSE IF i \in keep THEN Append(F[i - 1], s[i]) ELSE F[i - 1]
  IN F[Len(s)]

\* The step in which wizard w runs validate (step 4, Next).
Validates(w) == step[w] = 4 /\ (step'[w] = 5 \/ errors'[w] # errors[w])

\* C13: validate reports a phone error exactly when the phone without its
\* whitespace is not 01 followed by nine digits: 0101234567 and
\* +201012345678 are rejected, 01012345678 is accepted with or without
\* spaces; a rejected phone keeps the wizard at step 4.
C13_PhoneErrorIffNotMobileNumber ==
  [][\A w \in Wizards :
       Validates(w) =>
         LET phone == formData[w].phone
             rejected == "phone" \in errors'[w]
         IN /\ rejected <=> ~IsMobileNumber(WithoutWhitespace(phone))
            /\ rejected => step'[w] = 4
            /\ phone \in {PhoneShort, PhoneIntl} => rejected
            /\ phone \in {PhoneGood, PhoneSpaced} => ~rejected]_vars

\* validate has rejected +201012345678 in a form that is otherwise valid.
C13_Witness ==
  /\ step[1] = 4
  /\ formData[1].phone = PhoneIntl
  /\ errors[1] = {"phone"}

\* Ticket-<bookingId>-<row><seatNumber>.png for ticket i of call c.
FileOfTicket(c, i) ==
  [bookingId |-> bookingId(c.w), row |-> c.seats[i].row,
   seatNumber |-> c.seats[i].seat_number]

\* C14: downloadMultipleTickets, given N tickets, triggers one download per
\* ticket in input order, each named after its ticket, N in all when it
\* returns; ticket i + 1 is started only after ticket i was rendered and
\* downloaded and the delay has elapsed.
C14_TicketsDownloadedInOrder ==
  [][/\ \A w \in Wizards :
          downloads'[w] # downloads[w] =>
            \E k \in DOMAIN calls :
              calls[k].w = w /\ calls[k].pc = "render" /\ calls'[k].pc = "delay"
     /\ \A k \in DOMAIN calls :
       LET c == calls[k]
           d == calls'[k]
           w == c.w
       IN c.w \in Wizards =>
            \* a ticket starts rendering: the first one when createBooking
            \* has returned, ticket i + 1 when the delay after ticket i ends
            /\ (d.pc \in {"render", "hung"} /\ c.pc # d.pc) =>
                 /\ \/ c.pc = "updateSeats" /\ d.idx = 1
                    \/ c.pc = "delay" /\ d.idx = c.idx + 1
                 /\ Len(downloads[w]) = d.idx - 1
                 /\ downloads'[w] = downloads[w]
            \* the rendered ticket is downloaded and the delay starts
            /\ (c.pc = "render" /\ d.pc # c.pc) =>
                 /\ d.pc = "delay"
                 /\ d.idx = c.idx
                 /\ downloads'[w] = Append(downloads[w], FileOfTicket(c, c.idx))
            \* downloadMultipleTickets returns after the last delay
            /\ (d.pc = "done" /\ d.result = "returned" /\ c.pc # "done") =>
                 /\ c.pc = "delay"
                 /\ c.idx = Len(c.seats)
                 /\ downloads'[w] =
                      [i \in 1..Len(c.seats) |-> FileOfTicket(c, i)]]_vars

\* handlePayment has finished for two seats, both tickets downloaded.
C14_Witness ==
  \E k \in DOMAIN calls :
    /\ calls[k].w = 1
    /\ calls[k].pc = "done"
    /\ calls[k].result = "returned"
    /\ Len(calls[k].seats) = 2
    /\ Len(downloads[1]) = 2
    /\ downloads[1][1] # downloads[1][2]

\* C15: when the 2D context cannot be acquired generateIndividualTicket
\* neither resolves nor rejects: the call stays where it is for good, the
\* ticket is not downloaded, and no error reaches the caller (no catch
\* block runs, no toast is raised, the step is not changed); a payment ends
\* in an error only when one of its three writes failed.
C15_NoContextNeverSettles ==
  [][\A k \in DOMAIN calls :
       LET c == calls[k]
           d == calls'[k]
           w == c.w
       IN /\ c.pc = "hung" => d = c
          /\ (d.result = "thrown" /\ c.result # "thrown") =>
               d.failedAt \in 1..3
          /\ (d.pc = "hung" /\ c.pc # "hung") =>
               /\ c.pc \in {"updateSeats", "delay"}
               /\ d.result = "returned"
               /\ Len(downloads'[w]) = d.idx - 1
               /\ downloads' = downloads
               /\ toast' = toast
               /\ step' = step
               /\ isLoading' = isLoading]_vars

\* The second ticket of a payment found no context: one ticket downloaded,
\* the wizard still at step 5 and loading.
C15_Witness ==
  \E k \in DOMAIN calls :
    /\ calls[k].w = 1
    /\ calls[k].pc = "hung"
    /\ calls[k].idx = 2
    /\ Len(downloads[1]) = 1
    /\ step[1] = 5
    /\ isLoading[1]

\* C16: when the read of the booked seats fails while the wizard loads them,
\* the wizard raises its error toast and takes the booked set to be empty.
C16_FailedLoadShowsErrorToast ==
  [][\A w \in Wizards : \A type \in Tiers :
       LoadBookedSeatsDone(w, type, FALSE) =>
         /\ toast'[w] = "loadError"
         /\ bookedSeats'[w] = {}]_vars

RECURSIVE LayoutSum(_)
LayoutSum(layout) ==
  IF layout = <<>> THEN 0 ELSE Head(layout).seats + LayoutSum(Tail(layout))

\* The seat numbers of a tier's row that the store holds.
StoredNumbers(type, row) ==
  {id[3] : id \in {x \in DOMAIN theater_seats : x[1] = type /\ x[2] = row}}

\* C18: on the seeded store the row counts of getSeatLayout(tier), each the
\* largest seat number seen in the row, add up to the number of seats seeded
\* for the tier: 23 for vip and 254 for classic at full size, and the number
\* of rows the store holds for the tier whenever the read succeeds, whatever
\* has been booked since.
C18_LayoutSumsToSeededSeats ==
  /\ SeedCountFrom("vip", 1) = 23
  /\ SeedCountFrom("classic", 1) = 254
  /\ LayoutSum(SeedLayout["vip"]) = 23
  /\ LayoutSum(SeedLayout["classic"]) = 254
  /\ (lastRead.fn = "getSeatLayout" /\ lastRead.ok) =>
       LET type == lastRead.theater_type
           layout == lastRead.data
       IN /\ LayoutSum(layout) =
               Cardinality({id \in DOMAIN theater_seats : id[1] = type})
          /\ LayoutSum(layout) = TotalSeats(type)
          /\ \A i \in 1..Len(layout) :
               /\ layout[i].seats \in StoredNumbers(type, layout[i].row)
               /\ \A n \in StoredNumbers(type, layout[i].row) :
                    n <= layout[i].seats
          /\ \A row \in Rows :
               StoredNumbers(type, row) # {} =>
                 \E i \in 1..Len(layout) : layout[i].row = row

\* getSeatLayout answered for the vip tier while one of its seats was
\* booked: the layout still counts both seats of row A.
C18_Witness ==
  /\ lastRead.fn = "getSeatLayout"
  /\ lastRead.ok
  /\ lastRead.theater_type = "vip"
  /\ lastRead.data = <<[row |-> "A", seats |-> 2]>>
  /\ ~theater_seats[<<"vip", "A", 1>>]

\* C19: any two downloaded tickets that differ in booking id, row or seat
\* number, two seats of one booking among them, show different barcode
\* texts on their images.
C19_DrawnBarcodesDiffer ==
  \A w1 \in Wizards, w2 \in Wizards :
    \A i \in 1..Len(downloads[w1]), j \in 1..Len(downloads[w2]) :
      downloads[w1][i] # downloads[w2][j] =>
        BarcodeDrawn(downloads[w1][i]) # BarcodeDrawn(downloads[w2][j])

\* A file processFile turns away.
Rejected(file) ==
  file.size > 10 * 1024 * 1024 \/
  file.type \notin {"image/jpeg", "image/png", "application/pdf"}

\* C20: in BookingFlow the stored receipt is only ever a file of at most
\* 10 MB of type JPEG, PNG or PDF; picking or dropping a file that is
\* rejected leaves the stored receipt as it was; and the confirmed step (7)
\* is entered only from the upload step with a receipt stored, and keeps it.
C20_ReceiptAcceptedAndNeededToConfirm ==
  [][/\ \A i \in 1..Len(bookingFlow'.receipt) :
          ~Rejected(bookingFlow'.receipt[i])
     /\ Len(bookingFlow'.receipt) <= 1
     /\ \A file \in ReceiptFiles :
          (Rejected(file) /\ (FileInputChange(file) \/ handleDrop(file))) =>
            bookingFlow'.receipt = bookingFlow.receipt
     /\ bookingFlow'.step = 7 => bookingFlow'.receipt # <<>>
     /\ (bookingFlow'.step = 7 /\ bookingFlow.step # 7) =>
          (bookingFlow.step = 6 /\ bookingFlow.receipt # <<>>)]_vars

\* The confirmed step was reached with a PDF of exactly 10 MB stored, after
\* a larger file had been turned away without replacing it.
C20_Witness ==
  /\ bookingFlow.step = 7
  /\ bookingFlow.receipt =
       <<[size |-> 10 * 1024 * 1024, type |-> "application/pdf"]>>
  /\ bookingFlow.toast = "size"

\* The createBooking calls whose store writes are not all done yet.
WritePcs == {"insertBooking", "insertSeats", "updateSeats"}

\* C21: closing the wizard while one of its createBooking calls is in flight
\* does not cancel the call.  The close itself leaves the call and the store
\* as they are; every remaining write of the call can still be issued, and
\* when it is issued and the store accepts it, it is applied to the store as
\* for an open wizard; only the wizard no longer takes the result: its React
\* state is not changed by anything the call does afterwards.
C21_CloseDoesNotCancel ==
  [][\A w \in Wizards :
       /\ (mounted[w] /\ ~mounted'[w]) =>
            /\ calls' = calls
            /\ UNCHANGED store
       /\ \A k \in DOMAIN calls :
            LET c == calls[k]
                d == calls'[k]
            IN (c.w = w /\ ~mounted[w]) =>
                 /\ c.pc = "insertBooking" => ENABLED InsertBooking(k, TRUE)
                 /\ c.pc = "insertSeats" => ENABLED InsertBookingSeats(k, TRUE)
                 /\ c.pc = "updateSeats" => ENABLED UpdateSeats(k, TRUE, TRUE)
                 /\ (c.pc = "insertBooking" /\ d.pc = "insertSeats") =>
                      /\ Len(bookings') = Len(bookings) + 1
                      /\ bookings'[Len(bookings')].name = c.name
                      /\ bookings'[Len(bookings')].theater_type = c.theater_type
                 /\ (c.pc = "insertSeats" /\ d.pc = "updateSeats") =>
                      /\ Len(booking_seats') = Len(booking_seats) + Len(c.seats)
                      /\ \A i \in 1..Len(c.seats) :
                           LET r == booking_seats'[Len(booking_seats) + i]
                           IN /\ r.booking_id = c.booking
                              /\ r.row = c.seats[i].row
                              /\ r.seat_number = c.seats[i].seat_number
                 /\ (c.pc = "updateSeats" /\ d.pc # "updateSeats"
                       /\ d.result = "returned") =>
                      \A i \in 1..Len(c.seats) :
                        ~theater_seats'[SeatId(c.theater_type, c.seats[i])]
                 /\ d # c =>
                      /\ c.pc # "done"
                      /\ d.result # "cancelled"
                      /\ wizard' = wizard]_vars

\* The wizard was closed and its createBooking call, sent before, still has
\* its third write to make: the booking row and the seat claims are stored.
C21_Witness ==
  \E k \in DOMAIN calls :
    /\ calls[k].w = 1
    /\ ~mounted[1]
    /\ calls[k].pc = "updateSeats"
    /\ calls[k].booking \in 1..Len(bookings)
    /\ \E i \in 1..Len(booking_seats) :
         booking_seats[i].booking_id = calls[k].booking

\* C22: every seat-claim row references a booking row that is in the store,
\* and a seat that is among the seeded seats of that booking's tier.
C22_ClaimsReferenceBookingAndSeat ==
  \A i \in DOMAIN booking_seats :
    LET r == booking_seats[i]
    IN /\ r.booking_id \in 1..Len(bookings)
       /\ bookings[r.booking_id].id = r.booking_id
       /\ <<bookings[r.booking_id].theater_type, r.row, r.seat_number>>
            \in DOMAIN theater_seats

\* Seat claims of a vip and of a classic booking are stored, one of them
\* written by a call that failed afterwards.
C22_Witness ==
  /\ \E i \in DOMAIN booking_seats : booking_seats[i].theater_type = "vip"
  /\ \E i \in DOMAIN booking_seats : booking_seats[i].theater_type = "classic"
  /\ \E k \in DOMAIN calls : calls[k].failedAt = 3

\* The identifier of a stored booking row, as text: the id the store gave
\* the row when it was inserted.
StoredIdText(row) == NumberText(row.id)

\* C23: after a successful booking through the wizard, the booking id on
\* every ticket and in every ticket file name, and the one the confirmation
\* step shows, is the id of the booking row createBooking stored.
C23_TicketIdIsStoredBookingId ==
  \A k \in DOMAIN calls :
    LET c == calls[k]
        w == c.w
    IN (w \in Wizards /\ c.result = "returned" /\ c.pc = "done") =>
         LET stored == StoredIdText(bookings[c.booking])
         IN /\ \A i \in 1..Len(downloads[w]) :
                 bookingIdText(downloads[w][i].bookingId) = stored
            /\ step[w] = 6 => bookingIdText(bookingId(w)) = stored

\* A createBooking call of wizard w has returned and the downloads that
\* followed it have all been made, in the state reached by the step.
PaymentCompleted(w) ==
  \E k \in DOMAIN calls' :
    /\ calls'[k].w = w
    /\ calls'[k].result = "returned"
    /\ calls'[k].pc = "done"
    /\ calls'[k].idx = Len(calls'[k].seats) + 1
    /\ Len(downloads'[w]) >= Len(calls'[k].seats)

\* C24: the wizard is at the confirmation step (6) only if one of its own
\* createBooking calls has returned successfully and downloadMultipleTickets
\* has returned after it.  Once at step 6 the step stays 6 and nothing the
\* user entered changes any more, and the wizard starts no further payment,
\* until the wizard is closed.
C24_ConfirmationOnlyAfterPaymentAndFinal ==
  [][\A w \in Wizards :
       /\ step'[w] = 6 => PaymentCompleted(w)
       /\ (step[w] = 6 /\ mounted'[w]) =>
            /\ step'[w] = 6
            /\ ticketType'[w] = ticketType[w]
            /\ formData'[w] = formData[w]
            /\ selectedSeats'[w] = selectedSeats[w]
            /\ paymentMethod'[w] = paymentMethod[w]
            /\ errors'[w] = errors[w]
            /\ selected'[w] = selected[w]
            /\ PaymentsOf(w)' = PaymentsOf(w)
       /\ (step[w] = 6 /\ step'[w] # 6) => (mounted[w] /\ ~mounted'[w])]_vars

\* The wizard is at step 6 after its user paid and, while the payment was
\* pending, went back to an earlier step.
C24_Witness ==
  /\ step[1] = 6
  /\ mounted[1]
  /\ \E k \in DOMAIN calls :
       calls[k].w = 1 /\ calls[k].result = "returned" /\ calls[k].pc = "done"
  /\ \E k \in DOMAIN calls : calls[k].w = 1 /\ calls[k].result = "thrown"

\* C25: when the store answers every request, every handlePayment the
\* wizard starts eventually finishes, the drawing surface being available
\* or not: its call ends, and if createBooking returned and the wizard is
\* still open it is then at the confirmation step and no longer loading.
C25_PaymentEventuallyFinishes ==
  \A k \in 1..MaxPayments :
    (k \in DOMAIN calls /\ calls[k].w = 1) ~>
      ( /\ k \in DOMAIN calls
        /\ calls[k].pc = "done"
        /\ (calls[k].result = "returned" /\ mounted[1]) => step[1] = 6 )

\* The createBooking calls of wizard w that have not finished.
InFlight(w) == {k \in DOMAIN calls : calls[k].w = w /\ calls[k].pc # "done"}

\* C26: a wizard has at most one createBooking call in flight, and while a
\* handlePayment of it is pending isLoading is true, so the Confirm Payment
\* button is disabled, whatever loadBookedSeats calls complete meanwhile.
C26_OnePaymentInFlight ==
  \A w \in Wizards :
    /\ Cardinality(InFlight(w)) <= 1
    /\ (mounted[w] /\ InFlight(w) # {}) => isLoading[w]

\* C27: once no loadBookedSeats call of an open wizard is pending, its
\* bookedSeats and maxQuantity are those of the tier now selected: every
\* key in bookedSeats is a booked seat of that tier, and maxQuantity is the
\* tier's capacity less their number, capped at 10.
C27_LoadedSeatsAreOfCurrentTier ==
  \A w \in Wizards :
    (mounted[w] /\ ticketType[w] # NoTier /\ PendingLoads(w) = 0) =>
      /\ bookedSeats[w] \subseteq {SeatKey(s) : s \in BookedNow(ticketType[w])}
      /\ maxQuantity[w] =
           Min(TotalSeats(ticketType[w]) - Cardinality(bookedSeats[w]), HardCap)

\* C28: whenever the seat picker is displayed, the seats it shows as
\* selected are the wizard's selectedSeats, the seats that will be
\* submitted, whatever Next, Back and toggle steps came before.
C28_PickerShowsSelectedSeats ==
  \A w \in Wizards :
    (mounted[w] /\ PickerShown(step[w], ticketType[w], isLoading[w])) =>
      SeatSet(selected[w]) = SeatSet(selectedSeats[w])

\* The list sel without its element number i.
Without(sel, i) == SubSeq(sel, 1, i - 1) \o SubSeq(sel, i + 1, Len(sel))

C30_SelectedSeatsAreOfCurrentTier ==
  [][\A w \in Wizards :
       /\ (step[w] = 1 /\ step'[w] = 2) => selectedSeats'[w] = <<>>
       /\ ticketType'[w] # ticketType[w] => selectedSeats'[w] = <<>>
       /\ formData'[w].quantity # formData[w].quantity => selectedSeats'[w] = <<>>
       /\ (step[w] = 2 /\ step'[w] = 2 /\ selectedSeats'[w] # selectedSeats[w])
            => selectedSeats'[w] = <<>>
       /\ SeatSet(selectedSeats[w]) \subseteq
            (IF ticketType[w] = NoTier THEN {} ELSE LayoutSeats(ticketType[w]))
       /\ SeatSet(selectedSeats'[w]) \subseteq
            (IF ticketType'[w] = NoTier THEN {} ELSE LayoutSeats(ticketType'[w]))]_vars

\* The user paid for the vip seat A2, went back to step 1, chose classic and
\* has now selected the classic seat B1.
C30_Witness ==
  /\ ticketType[1] = "classic"
  /\ selectedSeats[1] = <<[row |-> "B", seat_number |-> 1]>>
  /\ \E k \in DOMAIN calls :
       /\ calls[k].w = 1
       /\ calls[k].theater_type = "vip"
       /\ calls[k].seats = <<[row |-> "A", seat_number |-> 2]>>

====
